---- MODULE Spec2Model ----
(***************************************************************************)
(* Batch-job engine of Consulta-optantes: the in-memory job table of       *)
(* app/main.py, the batch runner of app/services/consulta_optantes.py and  *)
(* the retrying lookup client of app/services/consulta_site.py.            *)
(*                                                                         *)
(* Scheduling.  The HTTP handlers (criar_lote, cancelar, status, download) *)
(* and the two halves of processar_job (before and after the               *)
(* `await asyncio.to_thread`) are coroutines of one asyncio event loop:    *)
(* each runs without interruption up to its next await, so each is one     *)
(* action.  The batch runner runs on a worker thread; it touches the job   *)
(* table only through progress_cb (under LOCK) and should_cancel, so each  *)
(* of its actions is the local work that leads to one such access.         *)
(***************************************************************************)
EXTENDS Integers, Sequences, FiniteSets, TLC

(* ------------------------------ bounds -------------------------------- *)
\* data rows of an uploaded file
MaxRows == 2
\* times the clock advances
MaxTicks == 1
\* the clock when the process starts, and how far one advance takes it (seconds)
ClockStart == 100000
ClockStep == 50000
\* how long before the process started an earlier run wrote its cache rows (seconds)
StartAge == 40000
\* keep-alive pings one subscription sends
MaxPings == 1

(* --------------------------- program constants ------------------------ *)
\* consultar_optante(max_retries=3)
max_retries == 3
\* \d{14}
CnpjLen == 14
\* CNPJA_CACHE_TTL_SECONDS, 24 h by default
DEFAULT_CACHE_TTL_SECONDS == 86400
\* 12.5 s, in tenths of a second
PUBLIC_API_MIN_DELAY == 125

VARIABLES
    JOBS,     \* job_id -> job record (main.py JOBS)
    TASKS,    \* job_id -> the state of that job's processar_job coroutine and worker thread
    cache,    \* the cnpja_cache table: cleaned cnpj -> <<>> (no row) or <<row>>
    now,      \* the clock, in seconds (time.time(), datetime.now())
    resp,     \* the HTTP response of this step, NoResp when the step is not a request
    SUBS,     \* subscription -> the state of one event_generator of GET /progresso
    call,     \* the call a direct caller of consultar_optante has made, NoCall between calls
    written,  \* cleaned cnpj -> <<>> or <<what that caller's last _cache_set stored, and when>>
    LOCK,     \* main.py LOCK: "free", or the thread that holds it, "loop" or "thread"
    line      \* the statement the event loop thread and the worker thread are at, for
              \* the specification that follows them statement by statement

vars == <<JOBS, TASKS, cache, now, resp, SUBS, call, written, LOCK, line>>

\* what the batch engine, taken one handler at a time, never touches: the
\* subscriptions, the direct caller, and the threads' places in the handlers
aside == <<SUBS, call, written, LOCK, line>>

(* ------------------------------ helpers ------------------------------- *)
None == <<>>
Some(x) == <<x>>

Max(a, b) == IF a >= b THEN a ELSE b

Rep(ch, n) == [i \in 1..n |-> ch]

Digits == {"0", "1", "2", "3", "4", "5", "6", "7", "8", "9"}

\* re.sub(r"\D+", "", str(value)): keeps the digits, in order
_clean_cnpj(value) == SelectSeq(value, LAMBDA ch : ch \in Digits)

\* re.fullmatch(r"\d{14}", cnpj)
_is_valid_14(cnpj) == Len(cnpj) = CnpjLen /\ \A i \in 1..Len(cnpj) : cnpj[i] \in Digits

(* ------------------------------ inputs -------------------------------- *)
\* a valid CNPJ written with punctuation (14 digits once cleaned)
CnpjA == <<"1", "1", ".">> \o Rep("1", CnpjLen - 2)
\* a valid CNPJ written as 14 digits
CnpjB == Rep("2", CnpjLen)
\* 13 digits
CnpjShort == Rep("3", CnpjLen - 1)

\* the cells of the CNPJ column an uploaded file may hold
RawCells == {CnpjA, CnpjB, CnpjShort}

RECURSIVE SeqsUpTo(_, _)
SeqsUpTo(S, n) ==
    IF n = 0 THEN {<<>>}
    ELSE LET shorter == SeqsUpTo(S, n - 1)
         IN  shorter \cup {Append(s, x) : s \in {t \in shorter : Len(t) = n - 1}, x \in S}

Uploads == SeqsUpTo(RawCells, MaxRows)

\* values of the `output` query parameter, as sent
OutputParams == {"csv", " XLSX", "pdf"}

\* (output or "").lower().strip()
lower_strip(output) ==
    CASE output = " XLSX" -> "xlsx"
      [] OTHER -> output

\* the parsed upload: the valid rows (cleaned, first occurrence of each CNPJ)
\* and the invalid rows kept in df.attrs["invalidos"]
RECURSIVE drop_duplicates(_)
drop_duplicates(s) ==
    IF s = <<>> THEN <<>>
    ELSE LET front == drop_duplicates(SubSeq(s, 1, Len(s) - 1))
             last == s[Len(s)]
         IN  IF \E i \in 1..Len(front) : front[i] = last THEN front ELSE Append(front, last)

Row(cell) == [cnpj_input |-> cell, cnpj |-> _clean_cnpj(cell)]

read_input_file_to_df(upload) ==
    LET df == [i \in 1..Len(upload) |-> Row(upload[i])]
        validos == SelectSeq(df, LAMBDA row : _is_valid_14(row.cnpj))
    IN  [cnpjs |-> drop_duplicates([i \in 1..Len(validos) |-> validos[i].cnpj]),
         invalidos |-> SelectSeq(df, LAMBDA row : ~_is_valid_14(row.cnpj))]

\* read_input_file_to_df over the uploads, tabulated
ParsedUploads == [upload \in Uploads |-> read_input_file_to_df(upload)]

(* --------------------------- lookup client ---------------------------- *)
\* One answer of the remote API to requests.get: code 0 stands for a
\* requests.RequestException (no HTTP answer at all); "obj" is a JSON object
\* body with a company object, "arr" a JSON array body.
Responses ==
    {[code |-> 200, body |-> "obj"], [code |-> 200, body |-> "arr"],
     [code |-> 429, body |-> ""], [code |-> 500, body |-> ""],
     [code |-> 404, body |-> ""], [code |-> 0, body |-> ""]}

\* mutant: a single attempt, whatever max_retries says
attempts_single == Max(1, 0)

\* attempts = max(1, int(max_retries))
attempts == Max(1, max_retries)

\* the answers that make the retry loop go round again: transport failure, 429, 5xx
Retryable == {r \in Responses : r.code = 0 \/ r.code = 429 \/ r.code >= 500}

\* what the API answers to the successive attempts of one lookup: the answers
\* one call of consultar_optante consumes, in order
RespSeqs ==
    {s \in SeqsUpTo(Responses, attempts) :
        /\ Len(s) >= 1
        /\ \A n \in 1..(Len(s) - 1) : s[n] \in Retryable
        /\ Len(s) < attempts => s[Len(s)] \notin Retryable}

ErrInvalid == "CNPJ invalido (precisa ter 14 digitos)"
ErrRate == "Rate limit excedido (API publica: 5 consultas/min). Vou aguardar e tentar novamente."
ErrServer == "Erro HTTP 500 (servidor) ao consultar CNPJa"
ErrHttp == "Erro HTTP 404 ao consultar CNPJa"
ErrNet == "Erro de rede: ConnectionError"

ErrResult(cnpj_clean, at, erro) ==
    [cnpj |-> cnpj_clean, razao_social |-> "", simples_nacional |-> "", simei |-> "",
     data_consulta |-> at, erro |-> erro, _cached |-> FALSE]

\* the payload built from a JSON object body
Payload(cnpj_clean, at) ==
    [cnpj |-> cnpj_clean, razao_social |-> "ACME LTDA", simples_nacional |-> "Sim",
     simei |-> "Nao", data_consulta |-> at, erro |-> "", _cached |-> FALSE]

\* mutant: the row expires as soon as its age reaches the ttl
_cache_get_expires_at_ttl(cnpj, table, ttl_seconds, now_ts) ==
    IF cnpj \notin DOMAIN table \/ table[cnpj] = None THEN None
    ELSE LET row == table[cnpj][1]
         IN  IF ttl_seconds > 0 /\ row.fetched_at > 0
                  /\ (now_ts - row.fetched_at) >= ttl_seconds
             THEN None
             ELSE Some([cnpj |-> cnpj, razao_social |-> row.razao_social,
                        simples_nacional |-> row.simples_nacional, simei |-> row.simei,
                        data_consulta |-> row.data_consulta,
                        erro |-> "", _cached |-> TRUE])

\* mutant: a hit is stamped with the time of the call that found it
_cache_get_stamps_now(cnpj, table, ttl_seconds, now_ts) ==
    IF cnpj \notin DOMAIN table \/ table[cnpj] = None THEN None
    ELSE LET row == table[cnpj][1]
         IN  IF ttl_seconds > 0 /\ row.fetched_at > 0
                  /\ (now_ts - row.fetched_at) > ttl_seconds
             THEN None
             ELSE Some([cnpj |-> cnpj, razao_social |-> row.razao_social,
                        simples_nacional |-> row.simples_nacional, simei |-> row.simei,
                        data_consulta |-> now_ts,
                        erro |-> "", _cached |-> TRUE])

\* SELECT ... WHERE cnpj = ?, then the ttl check
_cache_get(cnpj, table, ttl_seconds, now_ts) ==
    IF cnpj \notin DOMAIN table \/ table[cnpj] = None THEN None
    ELSE LET row == table[cnpj][1]
         IN  IF ttl_seconds > 0 /\ row.fetched_at > 0
                  /\ (now_ts - row.fetched_at) > ttl_seconds
             THEN None
             ELSE Some([cnpj |-> cnpj, razao_social |-> row.razao_social,
                        simples_nacional |-> row.simples_nacional, simei |-> row.simei,
                        data_consulta |-> row.data_consulta,
                        erro |-> "", _cached |-> TRUE])

\* mutant: ON CONFLICT leaves fetched_at as it was
_cache_set_keeps_fetched_at(payload, table, now_ts) ==
    IF ~_is_valid_14(payload.cnpj) THEN table
    ELSE [table EXCEPT ![payload.cnpj] =
              Some([razao_social |-> payload.razao_social,
                    simples_nacional |-> payload.simples_nacional,
                    simei |-> payload.simei,
                    data_consulta |-> payload.data_consulta,
                    fetched_at |-> IF @ = None THEN now_ts ELSE @[1].fetched_at])]

\* INSERT ... ON CONFLICT(cnpj) DO UPDATE
_cache_set(payload, table, now_ts) ==
    IF ~_is_valid_14(payload.cnpj) THEN table
    ELSE [table EXCEPT ![payload.cnpj] =
              Some([razao_social |-> payload.razao_social,
                    simples_nacional |-> payload.simples_nacional,
                    simei |-> payload.simei,
                    data_consulta |-> payload.data_consulta,
                    fetched_at |-> now_ts])]

\* mutant: a 4xx answer is slept on and retried like a 5xx
RECURSIVE fetch_retries_4xx(_, _, _, _, _)
fetch_retries_4xx(cnpj_clean, at, resps, attempt, sleeps) ==
    LET r == resps[attempt]
        give(res, store) == [raised |-> FALSE, r |-> res, requests |-> attempt,
                             sleeps |-> sleeps, store |-> store]
        retry_or(erro) == IF attempt < attempts
                          THEN fetch_retries_4xx(cnpj_clean, at, resps, attempt + 1, sleeps + 1)
                          ELSE give(ErrResult(cnpj_clean, at, erro), FALSE)
    IN  IF r.code = 0 THEN retry_or(ErrNet)
        ELSE IF r.code = 429 THEN retry_or(ErrRate)
        ELSE IF r.code >= 500 THEN retry_or(ErrServer)
        ELSE IF r.code >= 400 THEN retry_or(ErrHttp)
        ELSE IF r.body = "obj" THEN give(Payload(cnpj_clean, at), TRUE)
        ELSE [raised |-> TRUE, r |-> ErrResult(cnpj_clean, at, ""), requests |-> attempt,
              sleeps |-> sleeps, store |-> FALSE]

\* the retry loop, entered at time `at`: [raised, r, requests, sleeps, store]
RECURSIVE fetch(_, _, _, _, _)
fetch(cnpj_clean, at, resps, attempt, sleeps) ==
    LET r == resps[attempt]
        give(res, store) == [raised |-> FALSE, r |-> res, requests |-> attempt,
                             sleeps |-> sleeps, store |-> store]
        retry_or(erro) == IF attempt < attempts
                          THEN fetch(cnpj_clean, at, resps, attempt + 1, sleeps + 1)
                          ELSE give(ErrResult(cnpj_clean, at, erro), FALSE)
    IN  IF r.code = 0 THEN retry_or(ErrNet)
        ELSE IF r.code = 429 THEN retry_or(ErrRate)
        ELSE IF r.code >= 500 THEN retry_or(ErrServer)
        ELSE IF r.code >= 400 THEN give(ErrResult(cnpj_clean, at, ErrHttp), FALSE)
        ELSE IF r.body = "obj" THEN give(Payload(cnpj_clean, at), TRUE)
        \* data.get on a list: AttributeError, which no except clause catches
        ELSE [raised |-> TRUE, r |-> ErrResult(cnpj_clean, at, ""), requests |-> attempt,
              sleeps |-> sleeps, store |-> FALSE]

\* mutant: the identifier is not validated before the cache and the network
consultar_optante_unvalidated(cnpj, use_cache, cache_ttl_seconds, resps, table, now_ts) ==
    LET cnpj_clean == _clean_cnpj(cnpj)
        hit == IF use_cache
               THEN _cache_get(cnpj_clean, table, cache_ttl_seconds, now_ts)
               ELSE None
        reads == IF use_cache THEN 1 ELSE 0
    IN  IF hit # None
        THEN [raised |-> FALSE, r |-> hit[1], requests |-> 0, sleeps |-> 0, cache |-> table,
              reads |-> reads, writes |-> 0]
        ELSE LET f == fetch(cnpj_clean, now_ts, resps, 1, 0)
                 stores == f.store /\ use_cache
             IN  [raised |-> f.raised, r |-> f.r, requests |-> f.requests,
                  sleeps |-> f.sleeps,
                  cache |-> IF stores THEN _cache_set(f.r, table, now_ts) ELSE table,
                  reads |-> reads, writes |-> IF stores THEN 1 ELSE 0]

\* one call made at time now_ts, the API answering resps:
\* [raised, r, requests, sleeps, cache, reads, writes], reads and writes counting
\* the calls of _cache_get and _cache_set
consultar_optante(cnpj, use_cache, cache_ttl_seconds, resps, table, now_ts) ==
    LET cnpj_clean == _clean_cnpj(cnpj)
        hit == IF use_cache
               THEN _cache_get(cnpj_clean, table, cache_ttl_seconds, now_ts)
               ELSE None
        reads == IF use_cache THEN 1 ELSE 0
    IN  IF ~_is_valid_14(cnpj_clean)
        THEN [raised |-> FALSE, r |-> ErrResult(cnpj_clean, now_ts, ErrInvalid),
              requests |-> 0, sleeps |-> 0, cache |-> table, reads |-> 0, writes |-> 0]
        ELSE IF hit # None
        THEN [raised |-> FALSE, r |-> hit[1], requests |-> 0, sleeps |-> 0, cache |-> table,
              reads |-> reads, writes |-> 0]
        ELSE LET f == fetch(cnpj_clean, now_ts, resps, 1, 0)
                 stores == f.store /\ use_cache
             IN  [raised |-> f.raised, r |-> f.r, requests |-> f.requests,
                  sleeps |-> f.sleeps,
                  cache |-> IF stores THEN _cache_set(f.r, table, now_ts) ELSE table,
                  reads |-> reads, writes |-> IF stores THEN 1 ELSE 0]

(* ---------------------------- batch runner ---------------------------- *)
\* mutant: the total counts the valid rows only
lote_total_validos(df) == Len(df.cnpjs)

\* total = len(cnpjs) + total_invalidos
lote_total(df) == Len(df.cnpjs) + Len(df.invalidos)

\* r.pop("_cached", False); resultados.append(r)
pop_cached(r) ==
    [cnpj |-> r.cnpj, razao_social |-> r.razao_social,
     simples_nacional |-> r.simples_nacional, simei |-> r.simei,
     data_consulta |-> r.data_consulta, erro |-> r.erro]

\* the record appended for one row of invalidos
invalid_record(row, at) ==
    [cnpj |-> IF row.cnpj # <<>> THEN row.cnpj ELSE row.cnpj_input,
     razao_social |-> "", simples_nacional |-> "", simei |-> "",
     data_consulta |-> at, erro |-> ErrInvalid]

\* mutant: the runner sleeps after every item, cached or not
item_sleep_always(cached, sleep_seconds) == Max(0, Max(PUBLIC_API_MIN_DELAY, sleep_seconds))

\* lines 36 and 59-60: the sleep that follows one item, 0 for none
item_sleep(cached, sleep_seconds) ==
    IF ~cached THEN Max(0, Max(PUBLIC_API_MIN_DELAY, sleep_seconds)) ELSE 0

\* mutant: the invalid rows are appended after a cancellation too
appends_invalidos_unchecked(canceled, df) == Len(df.invalidos) > 0

\* line 63: after the loop over cnpjs, are the invalid rows appended?
appends_invalidos(canceled, df) == ~canceled /\ Len(df.invalidos) > 0

(* ------------------------- output serialization ----------------------- *)
\* str.zfill(14)
zfill(s) == IF Len(s) >= CnpjLen THEN s ELSE Rep("0", CnpjLen - Len(s)) \o s

\* the bytes of the result file, or the HTTPException of an unknown format
build_output_bytes(df_out, output) ==
    IF output \in {"csv", "xlsx"}
    THEN [raised |-> FALSE,
          bytes |-> Some([format |-> output,
                          rows |-> [i \in 1..Len(df_out) |->
                                       [df_out[i] EXCEPT !.cnpj = zfill(@)]]])]
    ELSE [raised |-> TRUE, bytes |-> None]

(* ------------------------------ job table ----------------------------- *)
\* the ids uuid.uuid4() hands out in one run of the process, and an id it never
\* handed out.  Jobs never read each other's records.
JobIds == {"7f3a"}
UnknownId == "0000"
RequestIds == JobIds \cup {UnknownId}

\* d[key] = value on a dict
Put(d, key, value) == [x \in DOMAIN d \cup {key} |-> IF x = key THEN value ELSE d[x]]

Statuses == {"queued", "running", "canceling", "canceled", "done", "error"}

\* JOBS[job_id] = {...} in criar_lote
new_job(df, output) ==
    [status |-> "queued", progress |-> 0,
     total |-> Len(df.cnpjs) + Len(df.invalidos),
     done |-> FALSE, file_bytes |-> None, file_name |-> "resultado." \o output,
     error |-> None, cancel_event |-> FALSE]

\* the coroutine processar_job(job_id, df, output, sleep_seconds) and its worker
\* thread; cached and slept keep, for each identifier processed, whether its
\* result came from the cache and the sleep that followed it
new_task(df, output, sleep_seconds) ==
    [pc |-> "created", df |-> df, output |-> output, sleep_seconds |-> sleep_seconds,
     resultados |-> <<>>, done |-> 0, i |-> 1, k |-> 1, broke_at |-> 0,
     cached |-> <<>>, slept |-> <<>>]

\* mutant: the callback reaffirms the total and forgets the progress
progress_cb_total_only(job, done, total) == [job EXCEPT !.total = total]

\* progress_cb(done, total), under LOCK
progress_cb(job, done, total) == [job EXCEPT !.total = total, !.progress = done]

\* the should_cancel lambda
should_cancel(job) == job.cancel_event

\* mutant: the completion block does not look at the cancel event
complete_ignores_cancel(job, file_bytes) ==
    [job EXCEPT !.file_bytes = file_bytes, !.done = TRUE, !.status = "done",
                !.progress = job.total]

\* mutant: the completion block stores the bytes and leaves done and status
complete_without_done(job, file_bytes) == [job EXCEPT !.file_bytes = file_bytes]

\* the completion block of processar_job, under LOCK
complete(job, file_bytes) ==
    IF job.cancel_event
    THEN [job EXCEPT !.file_bytes = file_bytes, !.done = TRUE, !.status = "canceled"]
    ELSE [job EXCEPT !.file_bytes = file_bytes, !.done = TRUE, !.status = "done",
                     !.progress = job.total]

\* mutant: the except block does not set done
fail_forgets_done(job, e) == [job EXCEPT !.status = "error", !.error = Some(e)]

\* mutant: the except block does not set the status
fail_keeps_status(job, e) == [job EXCEPT !.error = Some(e), !.done = TRUE]

\* the except block of processar_job, under LOCK
fail(job, e) ==
    [job EXCEPT !.status = "error", !.error = Some(e), !.done = TRUE]

\* mutant: no early return for a finished job
cancel_no_done_check(job) ==
    [job EXCEPT !.cancel_event = TRUE,
                !.status = IF @ \in {"queued", "running"} THEN "canceling" ELSE @]

\* mutant: no early return, and the status is overwritten whatever it is
cancel_always_canceling(job) ==
    [job EXCEPT !.cancel_event = TRUE, !.status = "canceling"]

\* mutant: the cancel request finalizes the job itself
cancel_finalizes(job) ==
    IF job.done THEN job
    ELSE [job EXCEPT !.cancel_event = TRUE, !.status = "canceled", !.done = TRUE]

\* cancelar after the 404 check
cancel(job) ==
    IF job.done THEN job
    ELSE [job EXCEPT !.cancel_event = TRUE,
                     !.status = IF @ \in {"queued", "running"} THEN "canceling" ELSE @]

\* the status cancelar reports
cancel_status(job) == IF job.done THEN job.status ELSE "canceling"

NoResp == [op |-> "none", job |-> UnknownId, code |-> 0, body |-> <<>>]

CleanCnpjs == {c \in {_clean_cnpj(cell) : cell \in RawCells} : _is_valid_14(c)}

\* a row an earlier run of the process left in the table
CachedRow ==
    [razao_social |-> "ACME LTDA", simples_nacional |-> "Sim", simei |-> "Nao",
     data_consulta |-> ClockStart - StartAge, fetched_at |-> ClockStart - StartAge]

\* no call of the direct caller is open
NoCall == [op |-> "none"]

\* the event loop thread is in no handler; the worker thread is not in progress_cb
Idle == [loop |-> "idle", thread |-> "run"]

\* the values of the sleep_seconds query parameter, in tenths of a second
SleepParams == {0, PUBLIC_API_MIN_DELAY}

Init ==
    /\ JOBS = <<>>
    /\ TASKS = <<>>
    /\ cache \in [CleanCnpjs -> {None, Some(CachedRow)}]
    /\ now = ClockStart
    /\ resp = NoResp
    /\ SUBS = <<>>
    /\ call = NoCall
    /\ written = [c \in CleanCnpjs |-> None]
    /\ LOCK = "free"
    /\ line = Idle

(* ------------------------------ front end ----------------------------- *)
\* POST /lotes
\* mutant: an upload without any row is accepted
criar_lote_accepts_empty(upload, outparam, sleep_param, job_id) ==
    LET output == lower_strip(outparam)
        sleep_seconds == Max(PUBLIC_API_MIN_DELAY, sleep_param)
        df == ParsedUploads[upload]
    IN  IF output \notin {"csv", "xlsx"}
        THEN /\ resp' = [op |-> "lotes", job |-> UnknownId, code |-> 400, body |-> <<>>]
             /\ UNCHANGED <<JOBS, TASKS, cache, now, aside>>
        ELSE /\ job_id \notin DOMAIN JOBS
             /\ JOBS' = Put(JOBS, job_id, new_job(df, output))
             /\ TASKS' = Put(TASKS, job_id, new_task(df, output, sleep_seconds))
             /\ resp' = [op |-> "lotes", job |-> job_id, code |-> 200, body |-> <<>>]
             /\ UNCHANGED <<cache, now, aside>>

\* job_id is what uuid.uuid4() returns, were the upload accepted
criar_lote(upload, outparam, sleep_param, job_id) ==
    LET output == lower_strip(outparam)
        sleep_seconds == Max(PUBLIC_API_MIN_DELAY, sleep_param)
        df == ParsedUploads[upload]
    IN  IF output \notin {"csv", "xlsx"}
            \/ (df.cnpjs = <<>> /\ Len(df.invalidos) = 0)
        THEN /\ resp' = [op |-> "lotes", job |-> UnknownId, code |-> 400, body |-> <<>>]
             /\ UNCHANGED <<JOBS, TASKS, cache, now, aside>>
        ELSE /\ job_id \notin DOMAIN JOBS
             /\ JOBS' = Put(JOBS, job_id, new_job(df, output))
             /\ TASKS' = Put(TASKS, job_id, new_task(df, output, sleep_seconds))
             /\ resp' = [op |-> "lotes", job |-> job_id, code |-> 200, body |-> <<>>]
             /\ UNCHANGED <<cache, now, aside>>

\* criar_lote rejects the format before it reads the file: for a rejected format
\* one upload stands for all of them
UploadsFor(outparam) ==
    IF lower_strip(outparam) \in {"csv", "xlsx"} THEN Uploads ELSE {<<>>}

\* mutant: one cancel event shared by all the jobs
cancelar_shared_event(job_id) ==
    IF job_id \notin DOMAIN JOBS
    THEN /\ resp' = [op |-> "cancel", job |-> job_id, code |-> 404, body |-> <<>>]
         /\ UNCHANGED <<JOBS, TASKS, cache, now, aside>>
    ELSE /\ JOBS' = [j \in DOMAIN JOBS |-> cancel(JOBS[j])]
         /\ resp' = [op |-> "cancel", job |-> job_id, code |-> 200,
                     body |-> <<cancel_status(JOBS[job_id])>>]
         /\ UNCHANGED <<TASKS, cache, now, aside>>

\* POST /cancel/{job_id}
cancelar(job_id) ==
    IF job_id \notin DOMAIN JOBS
    THEN /\ resp' = [op |-> "cancel", job |-> job_id, code |-> 404, body |-> <<>>]
         /\ UNCHANGED <<JOBS, TASKS, cache, now, aside>>
    ELSE /\ JOBS' = [JOBS EXCEPT ![job_id] = cancel(@)]
         /\ resp' = [op |-> "cancel", job |-> job_id, code |-> 200,
                     body |-> <<cancel_status(JOBS[job_id])>>]
         /\ UNCHANGED <<TASKS, cache, now, aside>>

\* GET /status/{job_id}
status(job_id) ==
    /\ resp' = IF job_id \notin DOMAIN JOBS
               THEN [op |-> "status", job |-> job_id, code |-> 404, body |-> <<>>]
               ELSE LET job == JOBS[job_id]
                    IN  [op |-> "status", job |-> job_id, code |-> 200,
                         body |-> <<[status |-> job.status, progress |-> job.progress,
                                     total |-> job.total, done |-> job.done,
                                     error |-> job.error,
                                     has_file |-> job.file_bytes # None,
                                     canceled |-> job.cancel_event]>>]
    /\ UNCHANGED <<JOBS, TASKS, cache, now, aside>>

\* mutant: the file is served as soon as the job is done, output or not
download_when_done(job_id) ==
    /\ resp' = IF job_id \notin DOMAIN JOBS
               THEN [op |-> "download", job |-> job_id, code |-> 404, body |-> <<>>]
               ELSE IF ~JOBS[job_id].done
               THEN [op |-> "download", job |-> job_id, code |-> 409, body |-> <<>>]
               ELSE [op |-> "download", job |-> job_id, code |-> 200,
                     body |-> JOBS[job_id].file_bytes]
    /\ UNCHANGED <<JOBS, TASKS, cache, now, aside>>

\* GET /download/{job_id}
download(job_id) ==
    /\ resp' = IF job_id \notin DOMAIN JOBS
               THEN [op |-> "download", job |-> job_id, code |-> 404, body |-> <<>>]
               ELSE IF ~JOBS[job_id].done \/ JOBS[job_id].file_bytes = None
               THEN [op |-> "download", job |-> job_id, code |-> 409, body |-> <<>>]
               ELSE [op |-> "download", job |-> job_id, code |-> 200,
                     body |-> JOBS[job_id].file_bytes]
    /\ UNCHANGED <<JOBS, TASKS, cache, now, aside>>

(* ------------------------- background execution ----------------------- *)
\* processar_job up to `await asyncio.to_thread(_run)`
processar_job_start(job_id) ==
    /\ job_id \in DOMAIN TASKS
    /\ TASKS[job_id].pc = "created"
    /\ JOBS' = [JOBS EXCEPT ![job_id].status = "running"]
    /\ TASKS' = [TASKS EXCEPT ![job_id].pc = "tick0"]
    /\ resp' = NoResp
    /\ UNCHANGED <<cache, now, aside>>

\* consultar_optante_lote: the first _tick()
lote_tick0(job_id) ==
    /\ job_id \in DOMAIN TASKS
    /\ TASKS[job_id].pc = "tick0"
    /\ JOBS' = [JOBS EXCEPT ![job_id] =
                   progress_cb(@, TASKS[job_id].done, lote_total(TASKS[job_id].df))]
    /\ TASKS' = [TASKS EXCEPT ![job_id].pc = "loop"]
    /\ resp' = NoResp
    /\ UNCHANGED <<cache, now, aside>>

\* the head of `for cnpj in cnpjs`, with the should_cancel check
lote_loop(job_id) ==
    /\ job_id \in DOMAIN TASKS
    /\ TASKS[job_id].pc = "loop"
    /\ LET t == TASKS[job_id]
       IN  TASKS' = [TASKS EXCEPT ![job_id] =
                IF t.i > Len(t.df.cnpjs) THEN [t EXCEPT !.pc = "post"]
                ELSE IF should_cancel(JOBS[job_id])
                THEN [t EXCEPT !.pc = "post", !.broke_at = t.i]
                ELSE [t EXCEPT !.pc = "lookup"]]
    /\ resp' = NoResp
    /\ UNCHANGED <<JOBS, cache, now, aside>>

\* one pass of the loop body: the lookup, the append, the tick (and the sleep)
lote_item(job_id) ==
    /\ job_id \in DOMAIN TASKS
    /\ TASKS[job_id].pc = "lookup"
    /\ \E resps \in RespSeqs :
         LET t == TASKS[job_id]
             out == consultar_optante(t.df.cnpjs[t.i], TRUE, DEFAULT_CACHE_TTL_SECONDS,
                                      resps, cache, now)
         IN  IF out.raised
             THEN /\ TASKS' = [TASKS EXCEPT ![job_id].pc = "raised"]
                  /\ UNCHANGED <<JOBS, cache>>
             ELSE /\ TASKS' = [TASKS EXCEPT ![job_id] =
                          [t EXCEPT !.resultados = Append(@, pop_cached(out.r)),
                                    !.done = @ + 1, !.i = @ + 1, !.pc = "loop",
                                    !.cached = Append(@, out.r._cached),
                                    !.slept = Append(@, item_sleep(out.r._cached,
                                                                   t.sleep_seconds))]]
                  /\ JOBS' = [JOBS EXCEPT ![job_id] =
                          progress_cb(@, t.done + 1, lote_total(t.df))]
                  /\ cache' = out.cache
    /\ resp' = NoResp
    /\ UNCHANGED <<now, aside>>

\* line 63: the second should_cancel check
lote_post(job_id) ==
    /\ job_id \in DOMAIN TASKS
    /\ TASKS[job_id].pc = "post"
    /\ TASKS' = [TASKS EXCEPT ![job_id].pc =
           IF appends_invalidos(should_cancel(JOBS[job_id]), TASKS[job_id].df)
           THEN "invalidos" ELSE "returned"]
    /\ resp' = NoResp
    /\ UNCHANGED <<JOBS, cache, now, aside>>

\* one pass of `for _, row in invalidos.iterrows()`
lote_invalido(job_id) ==
    /\ job_id \in DOMAIN TASKS
    /\ TASKS[job_id].pc = "invalidos"
    /\ LET t == TASKS[job_id]
       IN  /\ TASKS' = [TASKS EXCEPT ![job_id] =
                   [t EXCEPT !.resultados = Append(@, invalid_record(t.df.invalidos[t.k], now)),
                             !.done = @ + 1, !.k = @ + 1,
                             !.pc = IF t.k = Len(t.df.invalidos) THEN "returned" ELSE @]]
           /\ JOBS' = [JOBS EXCEPT ![job_id] =
                   progress_cb(@, t.done + 1, lote_total(t.df))]
    /\ resp' = NoResp
    /\ UNCHANGED <<cache, now, aside>>

\* processar_job after the await, the worker having returned df_out
processar_job_done(job_id) ==
    /\ job_id \in DOMAIN TASKS
    /\ TASKS[job_id].pc = "returned"
    /\ LET out == build_output_bytes(TASKS[job_id].resultados, TASKS[job_id].output)
       IN  JOBS' = [JOBS EXCEPT ![job_id] =
               IF out.raised THEN fail(@, "HTTPException: output deve ser csv ou xlsx")
               ELSE complete(@, out.bytes)]
    /\ TASKS' = [TASKS EXCEPT ![job_id].pc = "finished"]
    /\ resp' = NoResp
    /\ UNCHANGED <<cache, now, aside>>

\* processar_job after the await, the worker having raised
processar_job_except(job_id) ==
    /\ job_id \in DOMAIN TASKS
    /\ TASKS[job_id].pc = "raised"
    /\ JOBS' = [JOBS EXCEPT ![job_id] =
           fail(@, "AttributeError: 'list' object has no attribute 'get'")]
    /\ TASKS' = [TASKS EXCEPT ![job_id].pc = "failed"]
    /\ resp' = NoResp
    /\ UNCHANGED <<cache, now, aside>>

\* time passes
tick ==
    /\ now < ClockStart + MaxTicks * ClockStep
    /\ now' = now + ClockStep
    /\ resp' = NoResp
    /\ UNCHANGED <<JOBS, TASKS, cache, aside>>

Next ==
    \/ tick
    \/ \E outparam \in OutputParams, sleep_param \in SleepParams, job_id \in JobIds :
          \E upload \in UploadsFor(outparam) :
             criar_lote(upload, outparam, sleep_param, job_id)
    \/ \E job_id \in RequestIds : cancelar(job_id)
    \/ \E job_id \in RequestIds : status(job_id)
    \/ \E job_id \in RequestIds : download(job_id)
    \/ \E job_id \in JobIds : processar_job_start(job_id)
    \/ \E job_id \in JobIds : lote_tick0(job_id)
    \/ \E job_id \in JobIds : lote_loop(job_id)
    \/ \E job_id \in JobIds : lote_item(job_id)
    \/ \E job_id \in JobIds : lote_post(job_id)
    \/ \E job_id \in JobIds : lote_invalido(job_id)
    \/ \E job_id \in JobIds : processar_job_done(job_id)
    \/ \E job_id \in JobIds : processar_job_except(job_id)

Spec == Init /\ [][Next]_vars

(* --------------------------- the lookup client ------------------------ *)
\* consultar_optante called directly, one call at a time, on a cache that may
\* hold rows of an earlier run, while time passes between the calls.

\* the identifiers passed: two valid ones, one of 13 digits, the empty string
LookupCnpjs == {CnpjA, CnpjB, CnpjShort, <<>>}

\* values of CNPJA_CACHE_TTL_SECONDS: the default, a short one, and two that
\* switch the expiry off
TTLs == {DEFAULT_CACHE_TTL_SECONDS, StartAge, 0, -1}

\* what the API would answer to each of max_retries successive requests
Answers == [1..max_retries -> Responses]

\* an identifier that is not valid is not supposed to reach the API: one
\* sequence of answers stands for all
AnswersFor(cnpj) ==
    IF _is_valid_14(_clean_cnpj(cnpj)) THEN Answers
    ELSE {[n \in 1..max_retries |-> [code |-> 200, body |-> "obj"]]}

\* consultar_optante(cnpj) with the cache on, as every caller has it
lookup(cnpj, ttl, resps) ==
    /\ call = NoCall
    /\ LET out == consultar_optante(cnpj, TRUE, ttl, resps, cache, now)
       IN  /\ call' = [op |-> "lookup", cnpj |-> cnpj, ttl |-> ttl, resps |-> resps,
                       at |-> now, table |-> cache,
                       raised |-> out.raised, r |-> out.r, requests |-> out.requests,
                       sleeps |-> out.sleeps, reads |-> out.reads, writes |-> out.writes]
           /\ cache' = out.cache
           /\ written' = IF out.writes > 0
                         THEN [written EXCEPT ![out.r.cnpj] =
                                  Some([payload |-> out.r, at |-> now])]
                         ELSE written
    /\ UNCHANGED <<JOBS, TASKS, now, resp, SUBS, LOCK, line>>

\* the caller is done with the result
lookup_return ==
    /\ call # NoCall
    /\ call' = NoCall
    /\ UNCHANGED <<JOBS, TASKS, cache, now, resp, SUBS, written, LOCK, line>>

NextLookup ==
    \/ tick
    \/ \E cnpj \in LookupCnpjs, ttl \in TTLs :
          \E resps \in AnswersFor(cnpj) : lookup(cnpj, ttl, resps)
    \/ lookup_return

SpecLookup == Init /\ [][NextLookup]_vars

(* ------------------------------ two jobs ------------------------------ *)
\* Two jobs side by side, on one cache that starts empty: the submits, the
\* cancels and the background execution of both.
TwoJobIds == {"7f3a", "c41d"}

\* uploads of two rows, one valid and one invalid, and the empty upload
PairUploads == {<<>>, <<CnpjA, CnpjShort>>}

\* whatever processar_job(job_id) and its worker thread do next
job_step(job_id) ==
    \/ processar_job_start(job_id)
    \/ lote_tick0(job_id)
    \/ lote_loop(job_id)
    \/ lote_item(job_id)
    \/ lote_post(job_id)
    \/ lote_invalido(job_id)
    \/ processar_job_done(job_id)
    \/ processar_job_except(job_id)

InitJobs ==
    /\ Init
    /\ cache = [c \in CleanCnpjs |-> None]

NextJobs ==
    \/ \E outparam \in {"csv", "pdf"}, sleep_param \in SleepParams, job_id \in TwoJobIds :
          \E upload \in PairUploads : criar_lote(upload, outparam, sleep_param, job_id)
    \/ \E job_id \in TwoJobIds \cup {UnknownId} : cancelar(job_id)
    \/ \E job_id \in TwoJobIds : job_step(job_id)

SpecJobs == InitJobs /\ [][NextJobs]_vars

\* the event loop resumes every coroutine that is ready and the operating
\* system runs every worker thread: a job whose coroutine or worker has a next
\* step takes it.  Every wait inside a step ends: requests.get has a timeout,
\* the sleeps are finite, and a holder of LOCK releases it without waiting.
FairJobs == SpecJobs /\ \A job_id \in TwoJobIds : WF_vars(job_step(job_id))

(* -------------------------- progress streams -------------------------- *)
\* GET /progresso/{job_id}: event_generator is a coroutine of the event loop.
\* It hands each event to the response at a yield and waits at
\* asyncio.sleep(0.3); at both the loop may run other coroutines, so one action
\* is the code from one of these points to the next.  Whether 15 s have passed
\* since the last ping is not decided by anything the model keeps: it is an
\* input of the step.
SubIds == {"s1"}

Event(event, data) == [event |-> event, data |-> data]

\* yield {...}: the event goes out and the generator waits at `pc`
yield(sub, ev, pc) == [sub EXCEPT !.events = Append(@, ev), !.pc = pc]

\* lines 208-212: the done event and the break, or the sleep before the next pass
done_check(sub, job) ==
    IF job.done THEN yield(sub, Event("done", "ok"), "ended")
    ELSE [sub EXCEPT !.pc = "top"]

\* lines 203-206: the keep-alive, then on to the done check
ping_check(sub, job, ping_due) ==
    IF ping_due
    THEN [yield(sub, Event("ping", "keepalive"), "after_ping") EXCEPT !.pings = @ + 1]
    ELSE done_check(sub, job)

\* lines 184-200: the head of one pass of `while True`
loop_pass(sub, job, ping_due) ==
    IF job.status = "error"
    THEN yield(sub, Event("error", IF job.error # None THEN job.error[1]
                                   ELSE "Erro desconhecido"), "ended")
    ELSE IF job.progress # sub.last
    THEN [yield(sub, Event("progress", [status |-> job.status, progress |-> job.progress,
                                         total |-> job.total, done |-> job.done]),
                "after_progress")
          EXCEPT !.last = job.progress]
    ELSE ping_check(sub, job, ping_due)

\* GET /progresso/{job_id}
progresso(job_id, s) ==
    IF job_id \notin DOMAIN JOBS
    THEN /\ resp' = [op |-> "progresso", job |-> job_id, code |-> 404, body |-> <<>>]
         /\ UNCHANGED <<JOBS, TASKS, cache, now, aside>>
    ELSE /\ s \notin DOMAIN SUBS
         /\ SUBS' = Put(SUBS, s, [job |-> job_id, pc |-> "open", last |-> -1,
                                  pings |-> 0, events |-> <<>>])
         /\ resp' = [op |-> "progresso", job |-> job_id, code |-> 200, body |-> <<>>]
         /\ UNCHANGED <<JOBS, TASKS, cache, now, call, written, LOCK, line>>

\* the generator starts: yield open
gen_open(s) ==
    /\ s \in DOMAIN SUBS
    /\ SUBS[s].pc = "open"
    /\ SUBS' = [SUBS EXCEPT ![s] = yield(@, Event("open", "ok"), "top")]
    /\ resp' = NoResp
    /\ UNCHANGED <<JOBS, TASKS, cache, now, call, written, LOCK, line>>

\* one pass of the loop, from its head to its first yield or to the sleep
gen_pass(s) ==
    /\ s \in DOMAIN SUBS
    /\ SUBS[s].pc = "top"
    /\ \E ping_due \in {b \in BOOLEAN : b => SUBS[s].pings < MaxPings} :
          SUBS' = [SUBS EXCEPT ![s] = loop_pass(@, JOBS[@.job], ping_due)]
    /\ resp' = NoResp
    /\ UNCHANGED <<JOBS, TASKS, cache, now, call, written, LOCK, line>>

\* the generator is resumed after its progress event
gen_after_progress(s) ==
    /\ s \in DOMAIN SUBS
    /\ SUBS[s].pc = "after_progress"
    /\ \E ping_due \in {b \in BOOLEAN : b => SUBS[s].pings < MaxPings} :
          SUBS' = [SUBS EXCEPT ![s] = ping_check(@, JOBS[@.job], ping_due)]
    /\ resp' = NoResp
    /\ UNCHANGED <<JOBS, TASKS, cache, now, call, written, LOCK, line>>

\* the generator is resumed after its ping event
gen_after_ping(s) ==
    /\ s \in DOMAIN SUBS
    /\ SUBS[s].pc = "after_ping"
    /\ SUBS' = [SUBS EXCEPT ![s] = done_check(@, JOBS[@.job])]
    /\ resp' = NoResp
    /\ UNCHANGED <<JOBS, TASKS, cache, now, call, written, LOCK, line>>

\* whatever the generator of subscription s does next
gen_step(s) ==
    \/ gen_open(s)
    \/ gen_pass(s)
    \/ gen_after_progress(s)
    \/ gen_after_ping(s)

\* one job and one subscription to it, on a cache that starts empty
NextStream ==
    \/ \E outparam \in {"csv", "pdf"}, sleep_param \in SleepParams, job_id \in JobIds :
          \E upload \in PairUploads : criar_lote(upload, outparam, sleep_param, job_id)
    \/ \E job_id \in RequestIds : cancelar(job_id)
    \/ \E job_id \in JobIds : job_step(job_id)
    \/ \E job_id \in RequestIds, s \in SubIds : progresso(job_id, s)
    \/ \E s \in SubIds : gen_step(s)

SpecStream == InitJobs /\ [][NextStream]_vars

\* the event loop runs every coroutine that is ready: the generators...
FairStream == SpecStream /\ \A s \in SubIds : WF_vars(gen_step(s))

(* --------------------------- the job-table lock ------------------------ *)
\* One job followed statement by statement: the event loop thread runs one
\* handler at a time, from its first statement to its return or its await; the
\* job's worker thread runs consultar_optante_lote and, inside it, progress_cb.
\* `with LOCK:` blocks the thread that enters it until the lock is free and
\* frees the lock after the last statement of its block.  line.loop and
\* line.thread name the statement of main.py each thread executes next.

\* POST /lotes, when the event loop is in no handler
lk_criar_lote(upload, outparam, sleep_param, job_id) ==
    /\ line.loop = "idle"
    /\ criar_lote(upload, outparam, sleep_param, job_id)

\* processar_job line 96: `with LOCK:`
processar_job_96(job_id) ==
    /\ line.loop = "idle" /\ LOCK = "free"
    /\ job_id \in DOMAIN TASKS /\ TASKS[job_id].pc = "created"
    /\ LOCK' = "loop"
    /\ line' = [line EXCEPT !.loop = "start97"]
    /\ resp' = NoResp
    /\ UNCHANGED <<JOBS, TASKS, cache, now, SUBS, call, written>>

\* line 97 and the end of the block; asyncio.to_thread starts the worker
processar_job_97(job_id) ==
    /\ line.loop = "start97"
    /\ job_id \in DOMAIN TASKS /\ TASKS[job_id].pc = "created"
    /\ JOBS' = [JOBS EXCEPT ![job_id].status = "running"]
    /\ TASKS' = [TASKS EXCEPT ![job_id].pc = "tick0"]
    /\ LOCK' = "free"
    /\ line' = [line EXCEPT !.loop = "idle"]
    /\ resp' = NoResp
    /\ UNCHANGED <<cache, now, SUBS, call, written>>

\* the worker calls _tick(): progress_cb(done, total) is entered
lk_tick0(job_id) ==
    /\ line.thread = "run"
    /\ job_id \in DOMAIN TASKS /\ TASKS[job_id].pc = "tick0"
    /\ TASKS' = [TASKS EXCEPT ![job_id].pc = "loop"]
    /\ line' = [line EXCEPT !.thread = "cb100"]
    /\ resp' = NoResp
    /\ UNCHANGED <<JOBS, cache, now, SUBS, call, written, LOCK>>

\* the head of the identifier loop and the check of line 63, which touch no
\* field that progress_cb or a handler writes
lk_loop(job_id) == line.thread = "run" /\ lote_loop(job_id)

lk_post(job_id) == line.thread = "run" /\ lote_post(job_id)

\* one pass of the identifier loop up to its _tick()
lk_item(job_id) ==
    /\ line.thread = "run"
    /\ job_id \in DOMAIN TASKS /\ TASKS[job_id].pc = "lookup"
    /\ \E resps \in RespSeqs :
         LET t == TASKS[job_id]
             out == consultar_optante(t.df.cnpjs[t.i], TRUE, DEFAULT_CACHE_TTL_SECONDS,
                                      resps, cache, now)
         IN  IF out.raised
             THEN /\ TASKS' = [TASKS EXCEPT ![job_id].pc = "raised"]
                  /\ UNCHANGED <<cache, line>>
             ELSE /\ TASKS' = [TASKS EXCEPT ![job_id] =
                          [t EXCEPT !.resultados = Append(@, pop_cached(out.r)),
                                    !.done = @ + 1, !.i = @ + 1, !.pc = "loop",
                                    !.cached = Append(@, out.r._cached),
                                    !.slept = Append(@, item_sleep(out.r._cached,
                                                                   t.sleep_seconds))]]
                  /\ cache' = out.cache
                  /\ line' = [line EXCEPT !.thread = "cb100"]
    /\ resp' = NoResp
    /\ UNCHANGED <<JOBS, now, SUBS, call, written, LOCK>>

\* one pass of the invalid-row loop up to its _tick()
lk_invalido(job_id) ==
    /\ line.thread = "run"
    /\ job_id \in DOMAIN TASKS /\ TASKS[job_id].pc = "invalidos"
    /\ LET t == TASKS[job_id]
       IN  TASKS' = [TASKS EXCEPT ![job_id] =
               [t EXCEPT !.resultados = Append(@, invalid_record(t.df.invalidos[t.k], now)),
                         !.done = @ + 1, !.k = @ + 1,
                         !.pc = IF t.k = Len(t.df.invalidos) THEN "returned" ELSE @]]
    /\ line' = [line EXCEPT !.thread = "cb100"]
    /\ resp' = NoResp
    /\ UNCHANGED <<JOBS, cache, now, SUBS, call, written, LOCK>>

\* progress_cb line 100: `with LOCK:`
progress_cb_100(job_id) ==
    /\ line.thread = "cb100" /\ LOCK = "free"
    /\ LOCK' = "thread"
    /\ line' = [line EXCEPT !.thread = "cb102"]
    /\ resp' = NoResp
    /\ UNCHANGED <<JOBS, TASKS, cache, now, SUBS, call, written>>

\* line 102: JOBS[job_id]["total"] = total
progress_cb_102(job_id) ==
    /\ line.thread = "cb102"
    /\ job_id \in DOMAIN TASKS
    /\ JOBS' = [JOBS EXCEPT ![job_id].total = lote_total(TASKS[job_id].df)]
    /\ line' = [line EXCEPT !.thread = "cb103"]
    /\ resp' = NoResp
    /\ UNCHANGED <<TASKS, cache, now, SUBS, call, written, LOCK>>

\* line 103 and the end of the block: JOBS[job_id]["progress"] = done
progress_cb_103(job_id) ==
    /\ line.thread = "cb103"
    /\ job_id \in DOMAIN TASKS
    /\ JOBS' = [JOBS EXCEPT ![job_id].progress = TASKS[job_id].done]
    /\ LOCK' = "free"
    /\ line' = [line EXCEPT !.thread = "run"]
    /\ resp' = NoResp
    /\ UNCHANGED <<TASKS, cache, now, SUBS, call, written>>

\* processar_job resumes after the await: line 115 builds the bytes, and either
\* goes on to line 116 or raises into the except block
processar_job_115(job_id) ==
    /\ line = Idle
    /\ job_id \in DOMAIN TASKS /\ TASKS[job_id].pc \in {"returned", "raised"}
    /\ LET t == TASKS[job_id]
       IN  line' = [line EXCEPT !.loop =
               IF t.pc = "raised" \/ build_output_bytes(t.resultados, t.output).raised
               THEN "except129" ELSE "done116"]
    /\ resp' = NoResp
    /\ UNCHANGED <<JOBS, TASKS, cache, now, SUBS, call, written, LOCK>>

\* lines 116 and 129: `with LOCK:`
processar_job_with(job_id) ==
    /\ line.loop \in {"done116", "except129"} /\ LOCK = "free"
    /\ LOCK' = "loop"
    /\ line' = [line EXCEPT !.loop = IF @ = "done116" THEN "done117" ELSE "except130"]
    /\ resp' = NoResp
    /\ UNCHANGED <<JOBS, TASKS, cache, now, SUBS, call, written>>

\* lines 117-118: file_bytes, then done
processar_job_117(job_id) ==
    /\ line.loop = "done117"
    /\ job_id \in DOMAIN TASKS
    /\ LET t == TASKS[job_id]
       IN  JOBS' = [JOBS EXCEPT ![job_id].file_bytes =
                        build_output_bytes(t.resultados, t.output).bytes]
    /\ line' = [line EXCEPT !.loop = "done118"]
    /\ resp' = NoResp
    /\ UNCHANGED <<TASKS, cache, now, SUBS, call, written, LOCK>>

processar_job_118(job_id) ==
    /\ line.loop = "done118"
    /\ job_id \in DOMAIN JOBS
    /\ JOBS' = [JOBS EXCEPT ![job_id].done = TRUE]
    /\ line' = [line EXCEPT !.loop = "done121"]
    /\ resp' = NoResp
    /\ UNCHANGED <<TASKS, cache, now, SUBS, call, written, LOCK>>

\* lines 121-124: the status; canceled ends the block
processar_job_121(job_id) ==
    /\ line.loop = "done121"
    /\ job_id \in DOMAIN JOBS
    /\ IF JOBS[job_id].cancel_event
       THEN /\ JOBS' = [JOBS EXCEPT ![job_id].status = "canceled"]
            /\ TASKS' = [TASKS EXCEPT ![job_id].pc = "finished"]
            /\ LOCK' = "free"
            /\ line' = [line EXCEPT !.loop = "idle"]
       ELSE /\ JOBS' = [JOBS EXCEPT ![job_id].status = "done"]
            /\ line' = [line EXCEPT !.loop = "done125"]
            /\ UNCHANGED <<TASKS, LOCK>>
    /\ resp' = NoResp
    /\ UNCHANGED <<cache, now, SUBS, call, written>>

\* line 125 and the end of the block
processar_job_125(job_id) ==
    /\ line.loop = "done125"
    /\ job_id \in DOMAIN JOBS
    /\ JOBS' = [JOBS EXCEPT ![job_id].progress = JOBS[job_id].total]
    /\ TASKS' = [TASKS EXCEPT ![job_id].pc = "finished"]
    /\ LOCK' = "free"
    /\ line' = [line EXCEPT !.loop = "idle"]
    /\ resp' = NoResp
    /\ UNCHANGED <<cache, now, SUBS, call, written>>

\* lines 130-132: status, error, then done and the end of the block
processar_job_130(job_id) ==
    /\ line.loop = "except130"
    /\ job_id \in DOMAIN JOBS
    /\ JOBS' = [JOBS EXCEPT ![job_id].status = "error"]
    /\ line' = [line EXCEPT !.loop = "except131"]
    /\ resp' = NoResp
    /\ UNCHANGED <<TASKS, cache, now, SUBS, call, written, LOCK>>

processar_job_131(job_id) ==
    /\ line.loop = "except131"
    /\ job_id \in DOMAIN TASKS
    /\ JOBS' = [JOBS EXCEPT ![job_id].error =
           Some(IF TASKS[job_id].pc = "raised"
                THEN "AttributeError: 'list' object has no attribute 'get'"
                ELSE "HTTPException: output deve ser csv ou xlsx")]
    /\ line' = [line EXCEPT !.loop = "except132"]
    /\ resp' = NoResp
    /\ UNCHANGED <<TASKS, cache, now, SUBS, call, written, LOCK>>

processar_job_132(job_id) ==
    /\ line.loop = "except132"
    /\ job_id \in DOMAIN TASKS
    /\ JOBS' = [JOBS EXCEPT ![job_id].done = TRUE]
    /\ TASKS' = [TASKS EXCEPT ![job_id].pc =
           IF @ = "raised" THEN "failed" ELSE "finished"]
    /\ LOCK' = "free"
    /\ line' = [line EXCEPT !.loop = "idle"]
    /\ resp' = NoResp
    /\ UNCHANGED <<cache, now, SUBS, call, written>>

\* POST /cancel/{job_id}, lines 154-156: the 404, or on to the done check
cancelar_154(job_id) ==
    /\ line.loop = "idle"
    /\ IF job_id \notin DOMAIN JOBS
       THEN /\ resp' = [op |-> "cancel", job |-> job_id, code |-> 404, body |-> <<>>]
            /\ UNCHANGED line
       ELSE /\ resp' = NoResp
            /\ line' = [line EXCEPT !.loop = "cancel159"]
    /\ UNCHANGED <<JOBS, TASKS, cache, now, SUBS, call, written, LOCK>>

\* lines 159-160: if job.get("done"): return
cancelar_159(job_id) ==
    /\ line.loop = "cancel159"
    /\ job_id \in DOMAIN JOBS
    /\ IF JOBS[job_id].done
       THEN /\ resp' = [op |-> "cancel", job |-> job_id, code |-> 200,
                        body |-> <<JOBS[job_id].status>>]
            /\ line' = [line EXCEPT !.loop = "idle"]
       ELSE /\ resp' = NoResp
            /\ line' = [line EXCEPT !.loop = "cancel164"]
    /\ UNCHANGED <<JOBS, TASKS, cache, now, SUBS, call, written, LOCK>>

\* lines 162-164: ev.set()
cancelar_164(job_id) ==
    /\ line.loop = "cancel164"
    /\ job_id \in DOMAIN JOBS
    /\ JOBS' = [JOBS EXCEPT ![job_id].cancel_event = TRUE]
    /\ line' = [line EXCEPT !.loop = "cancel165"]
    /\ resp' = NoResp
    /\ UNCHANGED <<TASKS, cache, now, SUBS, call, written, LOCK>>

\* line 165: `with LOCK:`
cancelar_165(job_id) ==
    /\ line.loop = "cancel165" /\ LOCK = "free"
    /\ LOCK' = "loop"
    /\ line' = [line EXCEPT !.loop = "cancel167"]
    /\ resp' = NoResp
    /\ UNCHANGED <<JOBS, TASKS, cache, now, SUBS, call, written>>

\* lines 167-169: the status, the end of the block, the answer
cancelar_167(job_id) ==
    /\ line.loop = "cancel167"
    /\ job_id \in DOMAIN JOBS
    /\ JOBS' = [JOBS EXCEPT ![job_id].status =
           IF @ \in {"queued", "running"} THEN "canceling" ELSE @]
    /\ LOCK' = "free"
    /\ line' = [line EXCEPT !.loop = "idle"]
    /\ resp' = [op |-> "cancel", job |-> job_id, code |-> 200, body |-> <<"canceling">>]
    /\ UNCHANGED <<TASKS, cache, now, SUBS, call, written>>

\* the next statement of the event loop thread
loop_step(job_id) ==
    \/ processar_job_96(job_id)
    \/ processar_job_97(job_id)
    \/ processar_job_115(job_id)
    \/ processar_job_with(job_id)
    \/ processar_job_117(job_id)
    \/ processar_job_118(job_id)
    \/ processar_job_121(job_id)
    \/ processar_job_125(job_id)
    \/ processar_job_130(job_id)
    \/ processar_job_131(job_id)
    \/ processar_job_132(job_id)
    \/ cancelar_154(job_id)
    \/ cancelar_159(job_id)
    \/ cancelar_164(job_id)
    \/ cancelar_165(job_id)
    \/ cancelar_167(job_id)

\* the next statement of the worker thread
thread_step(job_id) ==
    \/ lk_tick0(job_id)
    \/ lk_loop(job_id)
    \/ lk_item(job_id)
    \/ lk_post(job_id)
    \/ lk_invalido(job_id)
    \/ progress_cb_100(job_id)
    \/ progress_cb_102(job_id)
    \/ progress_cb_103(job_id)

NextLock ==
    \/ \E outparam \in {"csv", "pdf"}, sleep_param \in SleepParams, job_id \in JobIds :
          \E upload \in PairUploads : lk_criar_lote(upload, outparam, sleep_param, job_id)
    \/ \E job_id \in JobIds : loop_step(job_id)
    \/ \E job_id \in JobIds : thread_step(job_id)

SpecLock == Init /\ [][NextLock]_vars

(* ------------------------------- claims ------------------------------- *)
Terminal == {"canceled", "done", "error"}

\* C1: in every reachable state, a job's done is true exactly when its status
\* is canceled, done or error.
C1_DoneIffTerminal ==
    \A j \in DOMAIN JOBS : JOBS[j].done <=> JOBS[j].status \in Terminal

\* a job canceled while running has been finalized as canceled
C1_Witness ==
    \E j \in DOMAIN JOBS : JOBS[j].done /\ JOBS[j].status = "canceled"

\* C2: once a job's done is true, no step changes its status or its output.
C2_DoneIsFinal ==
    [][\A j \in DOMAIN JOBS :
          JOBS[j].done => /\ j \in DOMAIN JOBS'
                          /\ JOBS'[j].status = JOBS[j].status
                          /\ JOBS'[j].file_bytes = JOBS[j].file_bytes]_vars

\* a cancel request has just been answered for a job that was finalized as canceled
C2_Witness ==
    \E j \in DOMAIN JOBS :
        /\ JOBS[j].done /\ JOBS[j].status = "canceled"
        /\ resp.op = "cancel" /\ resp.job = j /\ resp.body = <<"canceled">>

\* C3: 0 <= progress <= total and total = valid + invalid rows in every state,
\* and no step lowers a job's progress.
C3_Progress ==
    /\ [](\A j \in DOMAIN JOBS :
            /\ 0 <= JOBS[j].progress
            /\ JOBS[j].progress <= JOBS[j].total
            /\ JOBS[j].total = Len(TASKS[j].df.cnpjs) + Len(TASKS[j].df.invalidos))
    /\ [][\A j \in DOMAIN JOBS : JOBS'[j].progress >= JOBS[j].progress]_vars

\* a job with a valid and an invalid row, the valid one processed
C3_Witness ==
    \E j \in DOMAIN JOBS :
        /\ Len(TASKS[j].df.cnpjs) = 1 /\ Len(TASKS[j].df.invalidos) = 1
        /\ JOBS[j].progress = 1 /\ JOBS[j].total = 2
        /\ TASKS[j].pc = "invalidos"

AllowedEdges ==
    {<<"queued", "running">>, <<"running", "done">>, <<"running", "error">>,
     <<"running", "canceling">>, <<"canceling", "canceled">>, <<"queued", "canceling">>}

\* C4: every change of a job's status is one of queued->running, running->done,
\* running->error, running->canceling, canceling->canceled, queued->canceling.
C4_StateMachine ==
    [][\A j \in DOMAIN JOBS :
          JOBS'[j].status # JOBS[j].status
              => <<JOBS[j].status, JOBS'[j].status>> \in AllowedEdges]_vars

\* C5: when the loop head first sees should_cancel true before identifier k, the
\* runner returns exactly the results of identifiers 1..k-1 and no invalid-row
\* record, and the job is finalized as canceled with the bytes of that sequence.
C5_CancelBeforeItemK ==
    \A j \in DOMAIN TASKS :
        LET t == TASKS[j]
        IN  t.broke_at > 0 =>
              /\ t.pc \in {"post", "returned", "finished"}
              /\ Len(t.resultados) = t.broke_at - 1
              /\ \A n \in 1..Len(t.resultados) :
                    /\ t.resultados[n].cnpj = t.df.cnpjs[n]
                    /\ t.resultados[n].erro # ErrInvalid
              /\ t.pc = "finished" =>
                    /\ JOBS[j].status = "canceled"
                    /\ JOBS[j].done
                    /\ JOBS[j].file_bytes # None
                    /\ JOBS[j].file_bytes[1].format = t.output
                    /\ Len(JOBS[j].file_bytes[1].rows) = t.broke_at - 1
                    /\ JOBS[j].file_bytes = build_output_bytes(t.resultados, t.output).bytes

\* the loop broke before the second of two identifiers, and the job is finalized
C5_Witness ==
    \E j \in DOMAIN TASKS :
        /\ TASKS[j].broke_at = 2
        /\ TASKS[j].pc = "finished"
        /\ Len(TASKS[j].resultados) = 1

\* C6: a cancel request for a job whose done is true changes nothing of the job
\* table and answers with the job's status, which is not canceling.
C6_CancelDoneIsNoop ==
    [][\A j \in DOMAIN JOBS :
          (JOBS[j].done /\ resp'.op = "cancel" /\ resp'.job = j)
              => /\ JOBS' = JOBS
                 /\ resp'.code = 200
                 /\ resp'.body = <<JOBS[j].status>>
                 /\ JOBS[j].status \in Terminal]_vars

\* a cancel request has just been answered with "done"
C6_Witness ==
    \E j \in DOMAIN JOBS :
        /\ JOBS[j].done /\ JOBS[j].status = "done" /\ ~JOBS[j].cancel_event
        /\ resp.op = "cancel" /\ resp.job = j /\ resp.body = <<"done">>

\* C7: the step that finalizes a job whose runner returned stores the bytes of
\* the results, sets done, and sets status canceled if the cancel event is set,
\* else done with progress = total; so status done implies progress = total and
\* an unset cancel event, and status canceled implies a set cancel event.
C7_Completion ==
    /\ [](\A j \in DOMAIN JOBS :
            /\ JOBS[j].status = "done"
                 => JOBS[j].progress = JOBS[j].total /\ ~JOBS[j].cancel_event
            /\ JOBS[j].status = "canceled" => JOBS[j].cancel_event)
    /\ [][\A j \in DOMAIN JOBS :
            (TASKS[j].pc = "returned" /\ TASKS'[j].pc # "returned")
                => /\ JOBS'[j].done
                   /\ JOBS'[j].file_bytes # None
                   /\ JOBS'[j].file_bytes[1].rows =
                        [n \in 1..Len(TASKS[j].resultados) |->
                            [TASKS[j].resultados[n] EXCEPT !.cnpj = zfill(@)]]
                   /\ JOBS'[j].cancel_event = JOBS[j].cancel_event
                   /\ IF JOBS[j].cancel_event
                      THEN /\ JOBS'[j].status = "canceled"
                           /\ JOBS'[j].progress = JOBS[j].progress
                      ELSE /\ JOBS'[j].status = "done"
                           /\ JOBS'[j].progress = JOBS[j].total]_vars

\* a job canceled after its runner processed every row: finalized as canceled
C7_Witness ==
    \E j \in DOMAIN JOBS :
        /\ JOBS[j].status = "canceled" /\ JOBS[j].file_bytes # None
        /\ JOBS[j].progress = JOBS[j].total
        /\ TASKS[j].broke_at = 0

\* C8: a job that is never canceled and does not fail holds, when finalized, one
\* result per identifier in input order, then one error record per invalid row;
\* its progress counts the records one by one, and it ends with status done and
\* progress = total = identifiers + invalid rows.
C8_FullRun ==
    \A j \in DOMAIN JOBS :
        LET t == TASKS[j]
            nv == Len(t.df.cnpjs)
            ni == Len(t.df.invalidos)
        IN  (~JOBS[j].cancel_event /\ t.pc \notin {"raised", "failed"}) =>
              /\ JOBS[j].progress = Len(t.resultados)
              /\ t.pc = "finished" =>
                    /\ JOBS[j].status = "done"
                    /\ JOBS[j].progress = nv + ni
                    /\ JOBS[j].total = nv + ni
                    /\ Len(t.resultados) = nv + ni
                    /\ \A n \in 1..nv :
                          /\ t.resultados[n].cnpj = t.df.cnpjs[n]
                          /\ t.resultados[n].erro # ErrInvalid
                    /\ \A n \in 1..ni :
                          /\ t.resultados[nv + n].erro = ErrInvalid
                          /\ t.resultados[nv + n].razao_social = ""
                          /\ t.resultados[nv + n].cnpj =
                                IF t.df.invalidos[n].cnpj # <<>>
                                THEN t.df.invalidos[n].cnpj
                                ELSE t.df.invalidos[n].cnpj_input

\* a finalized, never canceled job with a valid and an invalid row
C8_Witness ==
    \E j \in DOMAIN JOBS :
        /\ ~JOBS[j].cancel_event /\ TASKS[j].pc = "finished"
        /\ Len(TASKS[j].df.cnpjs) = 1 /\ Len(TASKS[j].df.invalidos) = 1
        /\ Len(TASKS[j].resultados) = 2

\* C9: once the except block has run for a job, its status is error, its error
\* message is not empty, done is true and no output is stored; and while the
\* exception is pending the except block can run.
C9_FailureIsRecorded ==
    \A j \in DOMAIN JOBS :
        /\ TASKS[j].pc = "failed"
              => /\ JOBS[j].status = "error"
                 /\ JOBS[j].error # None
                 /\ JOBS[j].error[1] # ""
                 /\ JOBS[j].done
                 /\ JOBS[j].file_bytes = None
        /\ TASKS[j].pc = "raised" => ENABLED processar_job_except(j)

\* a job whose lookup raised after a cancel request
C9_Witness ==
    \E j \in DOMAIN JOBS :
        /\ TASKS[j].pc = "failed" /\ JOBS[j].status = "error"
        /\ JOBS[j].cancel_event

\* C10: no lookup raises, whatever the API answers: no job's runner is aborted
\* by a lookup and finalized with status error.
C10_LookupNeverRaises ==
    \A j \in DOMAIN JOBS : TASKS[j].pc # "failed" /\ JOBS[j].status # "error"

\* C11: a step that acts on one job - its submit, a cancel request for it, a
\* step of its background execution (progress callbacks, completion, failure) -
\* leaves the record and the task of every other job as they were, and whatever
\* the other jobs do, a job that is not finalized can take its next step.
C11_JobsIndependent ==
    /\ [](\A b \in DOMAIN TASKS :
            TASKS[b].pc \notin {"finished", "failed"} => ENABLED job_step(b))
    /\ [][\A a \in TwoJobIds, b \in DOMAIN JOBS :
            (/\ a # b
             /\ \/ a \notin DOMAIN JOBS /\ a \in DOMAIN JOBS'
                \/ a \in DOMAIN JOBS /\ (JOBS'[a] # JOBS[a] \/ TASKS'[a] # TASKS[a])
                \/ resp'.op = "cancel" /\ resp'.job = a)
                => JOBS'[b] = JOBS[b] /\ TASKS'[b] = TASKS[b]]_vars

\* one job failed and was canceled, the other one ran to done untouched
C11_Witness ==
    \E a \in DOMAIN JOBS, b \in DOMAIN JOBS :
        /\ a # b
        /\ JOBS[a].status = "error" /\ JOBS[a].cancel_event
        /\ JOBS[b].status = "done" /\ ~JOBS[b].cancel_event
        /\ JOBS[b].progress = 2

\* the call open is a lookup of an identifier of exactly 14 digits once cleaned
ValidCall == call.op = "lookup" /\ Len(_clean_cnpj(call.cnpj)) = CnpjLen

\* C12: a lookup of an identifier that does not clean to exactly 14 digits
\* returns an error result that is not a cache hit, having sent no request,
\* slept on no retry, and neither read nor written the cache.
C12_InvalidNoNetwork ==
    (call.op = "lookup" /\ Len(_clean_cnpj(call.cnpj)) # CnpjLen)
        => /\ ~call.raised
           /\ call.r.erro # ""
           /\ call.r._cached = FALSE
           /\ call.requests = 0
           /\ call.sleeps = 0
           /\ call.reads = 0
           /\ call.writes = 0
           /\ cache = call.table

\* a lookup of 13 digits has returned
C12_Witness ==
    /\ call.op = "lookup" /\ call.cnpj = CnpjShort
    /\ call.r.erro = ErrInvalid /\ call.r.cnpj = CnpjShort

\* C13: a lookup of a valid identifier whose cache row is not expired (its age
\* is at most the ttl, or the ttl is not positive) returns that row as a cache
\* hit and sends no request; a lookup that sent a request found no row or an
\* expired one.
C13_CacheHit ==
    ValidCall =>
        LET c == _clean_cnpj(call.cnpj)
            row == call.table[c]
            fresh == /\ row # None
                     /\ (call.ttl <= 0 \/ call.at - row[1].fetched_at <= call.ttl)
        IN  /\ fresh => /\ ~call.raised
                        /\ call.requests = 0
                        /\ call.r._cached = TRUE
                        /\ call.r.cnpj = c
                        /\ call.r.erro = ""
                        /\ call.r.razao_social = row[1].razao_social
                        /\ call.r.simples_nacional = row[1].simples_nacional
                        /\ call.r.simei = row[1].simei
                        /\ call.r.data_consulta = row[1].data_consulta
                        /\ cache = call.table
            /\ call.requests > 0 => ~fresh

\* a hit on a row whose age is exactly the ttl
C13_Witness ==
    /\ ValidCall
    /\ call.r._cached = TRUE /\ call.requests = 0
    /\ call.ttl > 0
    /\ call.at - call.table[_clean_cnpj(call.cnpj)][1].fetched_at = call.ttl

\* C14: whatever payload a successful lookup last stored for an identifier, at
\* whatever later time, _cache_get returns nothing once the row's age since
\* that store exceeds a positive ttl, and otherwise - the age within the ttl,
\* or the ttl not positive - returns the stored name, flags and query time
\* unchanged, marked as a cache hit.
C14_CacheRoundTrip ==
    \A c \in CleanCnpjs :
        written[c] # None =>
            \A ttl \in TTLs :
                LET w == written[c][1]
                    got == _cache_get(c, cache, ttl, now)
                IN  IF ttl > 0 /\ now - w.at > ttl
                    THEN got = None
                    ELSE /\ got # None
                         /\ got[1].cnpj = w.payload.cnpj
                         /\ got[1].razao_social = w.payload.razao_social
                         /\ got[1].simples_nacional = w.payload.simples_nacional
                         /\ got[1].simei = w.payload.simei
                         /\ got[1].data_consulta = w.payload.data_consulta
                         /\ got[1]._cached = TRUE

\* a lookup found the row of an earlier run expired and has stored a new one
C14_Witness ==
    /\ ValidCall
    /\ call.writes = 1
    /\ call.table[_clean_cnpj(call.cnpj)] # None
    /\ written[_clean_cnpj(call.cnpj)] # None
    /\ written[_clean_cnpj(call.cnpj)][1].at = now
    /\ now > ClockStart

\* the answers of the kinds that are retried: transport failure, 429, 5xx
IsRetried(a) == a.code = 0 \/ a.code = 429 \/ a.code >= 500

\* C16: when the first answer that is not a retried kind is a 4xx other than
\* 429, the lookup returns the HTTP-error result on it: it has sent no request
\* after it and slept only after the answers before it.
C16_ClientErrorNotRetried ==
    (ValidCall /\ call.requests > 0) =>
        \A n \in 1..max_retries :
            (/\ \A m \in 1..(n - 1) : IsRetried(call.resps[m])
             /\ call.resps[n].code >= 400 /\ call.resps[n].code <= 499
             /\ call.resps[n].code # 429)
                => /\ ~call.raised
                   /\ call.requests = n
                   /\ call.sleeps = n - 1
                   /\ call.r.erro = ErrHttp
                   /\ call.r._cached = FALSE
                   /\ call.writes = 0

\* a 404 as first answer, with payloads ready for further requests
C16_Witness ==
    /\ ValidCall
    /\ call.resps[1].code = 404 /\ call.resps[2].code = 200 /\ call.resps[3].code = 200
    /\ call.requests = 1 /\ call.r.erro = ErrHttp

\* the error message of a retried kind of answer
ErrOf(a) == IF a.code = 0 THEN ErrNet ELSE IF a.code = 429 THEN ErrRate ELSE ErrServer

\* C17: a lookup sends at most max_retries requests; it sleeps and sends the
\* next one after each answer of a retried kind while requests are left, and
\* when all max_retries answers are of a retried kind it returns the error
\* result of the last one.
C17_BoundedRetries ==
    call.op = "lookup" =>
        /\ call.requests <= max_retries
        /\ call.requests > 0 =>
              /\ call.sleeps = call.requests - 1
              /\ \A m \in 1..(call.requests - 1) : IsRetried(call.resps[m])
              /\ call.requests < max_retries => ~IsRetried(call.resps[call.requests])
              /\ (\A m \in 1..max_retries : IsRetried(call.resps[m]))
                    => /\ ~call.raised
                       /\ call.requests = max_retries
                       /\ call.r.erro = ErrOf(call.resps[max_retries])
                       /\ call.r._cached = FALSE
                       /\ call.writes = 0

\* a 429, a transport failure and a 500: three requests, and the server error
C17_Witness ==
    /\ ValidCall
    /\ call.resps[1].code = 429 /\ call.resps[2].code = 0 /\ call.resps[3].code = 500
    /\ call.requests = 3 /\ call.sleeps = 2 /\ call.r.erro = ErrServer

\* C15: in the batch runner no sleep follows an identifier whose result came from
\* the cache, and a sleep of at least the public-API minimum follows every
\* identifier that missed the cache and was answered by a successful request.
C15_DelayAfterMiss ==
    \A j \in DOMAIN TASKS :
        LET t == TASKS[j]
        IN  /\ Len(t.cached) = t.i - 1
            /\ Len(t.slept) = t.i - 1
            /\ \A n \in 1..(t.i - 1) :
                  /\ t.cached[n] => t.slept[n] = 0
                  /\ (~t.cached[n] /\ t.resultados[n].erro = "")
                        => t.slept[n] >= PUBLIC_API_MIN_DELAY

\* a cache hit followed by a miss that the API answered with a payload
C15_Witness ==
    \E j \in DOMAIN TASKS :
        /\ TASKS[j].cached = <<TRUE, FALSE>>
        /\ TASKS[j].resultados[2].erro = ""
        /\ TASKS[j].slept[1] = 0 /\ TASKS[j].slept[2] > 0

\* C18: a download request changes no job; it is answered 404 for an unknown id,
\* with the stored bytes when the job is done and holds output bytes, and 409
\* otherwise: while queued, running or canceling, and after an error.
C18_Download ==
    [][\A j \in RequestIds :
          (resp'.op = "download" /\ resp'.job = j)
              => /\ JOBS' = JOBS /\ TASKS' = TASKS
                 /\ IF j \notin DOMAIN JOBS THEN resp'.code = 404
                    ELSE IF JOBS[j].done /\ JOBS[j].file_bytes # None
                    THEN /\ resp'.code = 200
                         /\ resp'.body = JOBS[j].file_bytes
                         /\ JOBS[j].status \in {"done", "canceled"}
                    ELSE resp'.code = 409
                 /\ (j \in DOMAIN JOBS
                        /\ JOBS[j].status \in {"queued", "running", "canceling", "error"})
                       => resp'.code = 409]_vars

\* a download request has just been refused for a job that ended in error
C18_Witness ==
    \E j \in DOMAIN JOBS :
        /\ resp.op = "download" /\ resp.job = j /\ resp.code = 409
        /\ JOBS[j].status = "error" /\ JOBS[j].done

\* C19: a submit that is not accepted is answered 400 and leaves the job table
\* and the tasks as they were, and no submit whose format is not csv or xlsx, or
\* whose upload holds neither a valid nor an invalid row, is accepted; every
\* accepted submit adds exactly one job (queued, progress 0, not done, no
\* output, total = valid + invalid rows, cancel event unset) and its one task,
\* and changes no other job.
C19_Submit ==
    [][/\ (resp'.op = "lotes" /\ resp'.code # 200)
            => /\ resp'.code = 400
               /\ JOBS' = JOBS /\ TASKS' = TASKS
       /\ (resp'.op = "lotes" /\ resp'.code = 200) =>
            \A outparam \in OutputParams, sleep_param \in SleepParams, job_id \in JobIds :
              \A upload \in UploadsFor(outparam) :
                criar_lote(upload, outparam, sleep_param, job_id) =>
                  LET df == ParsedUploads[upload]
                  IN  /\ lower_strip(outparam) \in {"csv", "xlsx"}
                      /\ Len(df.cnpjs) + Len(df.invalidos) > 0
                      /\ resp'.job = job_id
                      /\ job_id \notin DOMAIN JOBS
                      /\ DOMAIN JOBS' = DOMAIN JOBS \cup {job_id}
                      /\ DOMAIN TASKS' = DOMAIN TASKS \cup {job_id}
                      /\ \A b \in DOMAIN JOBS : JOBS'[b] = JOBS[b] /\ TASKS'[b] = TASKS[b]
                      /\ JOBS'[job_id].status = "queued"
                      /\ JOBS'[job_id].progress = 0
                      /\ JOBS'[job_id].done = FALSE
                      /\ JOBS'[job_id].file_bytes = None
                      /\ JOBS'[job_id].cancel_event = FALSE
                      /\ JOBS'[job_id].total = Len(df.cnpjs) + Len(df.invalidos)
                      /\ TASKS'[job_id].pc = "created"
                      /\ TASKS'[job_id].df = df]_vars

\* a submit of one valid and one invalid row has just been accepted
C19_Witness ==
    \E j \in DOMAIN JOBS :
        /\ resp.op = "lotes" /\ resp.job = j /\ resp.code = 200
        /\ JOBS[j].status = "queued" /\ JOBS[j].total = 2
        /\ Len(TASKS[j].df.cnpjs) = 1 /\ Len(TASKS[j].df.invalidos) = 1

\* the events after which a stream ends
Terminals == {"error", "done"}

\* C20: the events of a subscription are open, once and first, then progress
\* and ping events only, then at most one terminal event, with which the stream
\* ends: error if the job's status is error, and otherwise done, sent only when
\* the job's done is true.
C20_StreamProtocol ==
    \A s \in DOMAIN SUBS :
        LET sub == SUBS[s]
            ev == sub.events
            n == Len(ev)
            job == JOBS[sub.job]
        IN  /\ n >= 1 => ev[1].event = "open"
            /\ \A i \in 2..n : ev[i].event # "open"
            /\ \A i \in 1..(n - 1) : ev[i].event \in {"open", "progress", "ping"}
            /\ sub.pc = "ended" <=> (n >= 1 /\ ev[n].event \in Terminals)
            /\ sub.pc = "ended" =>
                  /\ ev[n].event = "error" <=> job.status = "error"
                  /\ ev[n].event = "done" => job.done

\* C21 as stated: every result a lookup returns - a success, a failure or a
\* cache hit - carries as data_consulta the time of that call.
C21_QueriedAtIsNow ==
    (call.op = "lookup" /\ ~call.raised) => call.r.data_consulta = call.at

\* C21: every result a lookup returns without a cache hit - a success or a
\* failure, the identifier valid or not - carries as data_consulta the time
\* of that call; a cache hit carries the data_consulta stored in the row it
\* read, the time of the lookup that fetched the row.
C21_QueriedAt ==
    (call.op = "lookup" /\ ~call.raised) =>
        IF call.r._cached = TRUE
        THEN /\ call.table[call.r.cnpj] # None
             /\ call.r.data_consulta = call.table[call.r.cnpj][1].data_consulta
        ELSE call.r.data_consulta = call.at

\* a hit on a row that an earlier lookup fetched, at an earlier time
C21_Witness ==
    /\ ValidCall
    /\ call.r._cached = TRUE
    /\ call.r.data_consulta < call.at
    /\ written[call.r.cnpj] # None
    /\ written[call.r.cnpj][1].payload.data_consulta = call.r.data_consulta

\* C22: a cancel request for a job whose done is false sets the job's cancel
\* event and, if the status is queued or running, sets it to canceling, and
\* changes nothing else: done stays false, no bytes are stored, progress,
\* total, error and the file name stay, the coroutine and its worker are not
\* touched, and the answer is "canceling".  A cancel event that is set is
\* never cleared, and done is set only by the step of processar_job that
\* follows the worker's return or exception.
C22_CancelOnlySignals ==
    [][\A j \in DOMAIN JOBS :
          /\ (~JOBS[j].done /\ resp'.op = "cancel" /\ resp'.job = j)
                => /\ JOBS' = [JOBS EXCEPT ![j] =
                              [@ EXCEPT !.cancel_event = TRUE,
                                        !.status = IF JOBS[j].status \in {"queued", "running"}
                                                   THEN "canceling" ELSE JOBS[j].status]]
                   /\ ~JOBS'[j].done
                   /\ JOBS'[j].file_bytes = None
                   /\ JOBS'[j].progress = JOBS[j].progress
                   /\ JOBS'[j].total = JOBS[j].total
                   /\ JOBS'[j].error = JOBS[j].error
                   /\ TASKS' = TASKS
                   /\ resp'.code = 200 /\ resp'.body = <<"canceling">>
          /\ JOBS[j].cancel_event => JOBS'[j].cancel_event
          /\ (~JOBS[j].done /\ JOBS'[j].done)
                => /\ resp'.op = "none"
                   /\ TASKS[j].pc \in {"returned", "raised"}
                   /\ TASKS'[j].pc \in {"finished", "failed"}]_vars

\* a cancel request has just turned a running job with progress to canceling
C22_Witness ==
    \E j \in DOMAIN JOBS :
        /\ resp.op = "cancel" /\ resp.job = j /\ resp.body = <<"canceling">>
        /\ JOBS[j].status = "canceling" /\ JOBS[j].cancel_event
        /\ ~JOBS[j].done /\ JOBS[j].file_bytes = None
        /\ JOBS[j].progress > 0 /\ JOBS[j].progress < JOBS[j].total
        /\ TASKS[j].pc = "lookup"

\* C23: once a job's cancel event is set, the lookup that is in flight is not
\* interrupted - when it returns, its result is appended and counted - and
\* the runner starts no further item: it enters no other lookup and appends
\* no record, of an identifier or of an invalid row, other than that of the
\* lookup in flight.
C23_CooperativeCancel ==
    [][\A j \in DOMAIN TASKS :
          JOBS[j].cancel_event =>
              /\ (TASKS[j].pc = "lookup" /\ TASKS'[j].pc = "loop")
                    => /\ Len(TASKS'[j].resultados) = Len(TASKS[j].resultados) + 1
                       /\ JOBS'[j].progress = JOBS[j].progress + 1
              /\ TASKS[j].pc # "lookup"
                    => /\ TASKS'[j].pc # "lookup"
                       /\ TASKS'[j].resultados = TASKS[j].resultados
                       /\ JOBS'[j].progress = JOBS[j].progress]_vars

\* the statements of the claim's updates: those of progress_cb, those of the
\* first block, the completion block and the except block of processar_job,
\* and cancelar's done check, its raise of the event and its status write
UpdateLines ==
    [loop |-> {"start97", "done117", "done118", "done121", "done125",
               "except130", "except131", "except132",
               "cancel159", "cancel164", "cancel167"},
     thread |-> {"cb102", "cb103"}]

\* C24: whenever a thread is about to execute a statement of one of these
\* updates, it is the thread that holds LOCK.
C24_UpdatesUnderLock ==
    /\ line.loop \in UpdateLines.loop => LOCK = "loop"
    /\ line.thread \in UpdateLines.thread => LOCK = "thread"

\* the places of the progress events among the events a subscription has sent
ProgressAt(ev) == {n \in 1..Len(ev) : ev[n].event = "progress"}

\* C25: the progress events of a subscription carry progress values that never
\* decrease, and a subscription that sent a progress event while the job's
\* progress was still 0, to a job that ended with status done, does not send
\* done before it has sent a progress event with progress = total.
C25_FinalProgressSent ==
    \A s \in DOMAIN SUBS :
        LET ev == SUBS[s].events
            job == JOBS[SUBS[s].job]
        IN  /\ \A m, n \in ProgressAt(ev) :
                  m < n => ev[m].data.progress <= ev[n].data.progress
            /\ ( /\ \E n \in ProgressAt(ev) : ev[n].data.progress = 0
                 /\ job.status = "done"
                 /\ \E n \in 1..Len(ev) : ev[n].event = "done" )
                  => \E m \in ProgressAt(ev) : ev[m].data.progress = ev[m].data.total

\* the coroutine of job j has run its completion block or its except block
Finalized(j) == TASKS[j].pc \in {"finished", "failed"}

\* C26: under fair scheduling of the coroutines and the worker threads, every
\* job the table holds eventually has done = TRUE and status done, canceled or
\* error, whatever the cancel requests and the answers of the API; done is set
\* by the one step that finalizes the job, and after that step the coroutine
\* takes no other step and the job's record does not change.
C26_JobsTerminate ==
    /\ \A j \in TwoJobIds :
          (j \in DOMAIN JOBS)
              ~> (j \in DOMAIN JOBS /\ JOBS[j].done /\ JOBS[j].status \in Terminal
                  /\ Finalized(j))
    /\ [](\A j \in DOMAIN JOBS : JOBS[j].done <=> Finalized(j))
    /\ [][\A j \in DOMAIN JOBS :
             /\ Finalized(j) => (TASKS'[j] = TASKS[j] /\ JOBS'[j] = JOBS[j])
             /\ (~Finalized(j) /\ Finalized(j)')
                   => (~JOBS[j].done /\ JOBS'[j].done /\ JOBS'[j].status \in Terminal)]_vars

\* two jobs have ended, one canceled with its partial output, one in error
C26_Witness ==
    /\ DOMAIN JOBS = TwoJobIds
    /\ \E j, k \in TwoJobIds :
          /\ JOBS[j].done /\ JOBS[j].status = "canceled" /\ TASKS[j].pc = "finished"
          /\ Len(TASKS[j].resultados) = 1
          /\ JOBS[k].done /\ JOBS[k].status = "error" /\ TASKS[k].pc = "failed"

====
